---- MODULE Spec2Model ----
(***************************************************************************)
(* Model of app.py: one SQLite database file shared by the data injector   *)
(* thread (which also re-creates the database every RESET_INTERVAL_SECONDS *)
(* by calling setup_database), the validator thread and the handler of     *)
(* GET /api/dashboard-data.                                                *)
(*                                                                         *)
(* The database is reached by NAME at connect time and by open FILE        *)
(* afterwards: os.remove(DB_FILE) unlinks the name, a connection opened    *)
(* before keeps the file it opened.  `path` is the file the name DB_FILE   *)
(* denotes (NoFile when the name does not exist), `files` the content of   *)
(* every file some name or connection still refers to.  A row's id is its  *)
(* position in `rows` (INTEGER PRIMARY KEY AUTOINCREMENT, rows are never   *)
(* deleted from a file).                                                   *)
(***************************************************************************)
EXTENDS Integers, Sequences, FiniteSets, TLC

(* ------------------------------ bounds -------------------------------- *)
\* size=1000 normal values, np.full(15, 900.0), np.full(15, 0.0), scaled
NumNormal == 1
NumSpike == 1
NumFlat == 1
\* one-second ticks of the injector followed within one reset interval
MaxTicks == 1
\* re-seedings (successful calls of setup_database) followed after startup
MaxResets == 1
\* LIMIT 100 of the anomalies query, scaled with the seed
AnomalyLimit == 2

(* ----------------------------- constants ------------------------------ *)
RESET_INTERVAL_SECONDS == 900
\* is_valid INTEGER DEFAULT NULL: the SQL NULL / pandas NaN
NULL == 0 - 99
\* the name DB_FILE denotes no file
NoFile == 0
\* representatives of the values the program writes
FLATLINE == 0
SPIKE == 900
NORMAL == 150

Threads == {"injector", "validator", "dashboard"}
\* a file is kept while DB_FILE or an open connection refers to it
FileIds == 1..Cardinality(Threads)
SeedSize == NumNormal + NumSpike + NumFlat

VARIABLES
    path,        \* the file DB_FILE names, or NoFile
    files,       \* FileIds -> [exists, hasTable, rows]
    elapsed,     \* time.time() - start_time in whole seconds; every value from
                 \* RESET_INTERVAL_SECONDS on takes the same branch and is kept
                 \* as RESET_INTERVAL_SECONDS
    injector,    \* data_injector and the setup_database it calls: [pc]
    generation,  \* seedings committed since startup (history)
    failure,     \* the last failed setup_database (history)
    validator,   \* validator_loop: [pc, conn, df, stale, tx]; tx: conn has an
                 \* open transaction that holds the write lock of its file
    dashboard    \* dashboard_data: [pc, conn, stats, resp] and the history of
                 \* the request: fault (a store access failed), saw (what the
                 \* stats query found), inSetup (it ran inside setup_database)

vars == <<path, files, elapsed, injector, generation, failure, validator, dashboard>>

(* ------------------------------- store -------------------------------- *)
EmptyFile == [exists |-> FALSE, hasTable |-> FALSE, rows |-> <<>>]
CreatedFile == [exists |-> TRUE, hasTable |-> FALSE, rows |-> <<>>]

\* variant: the extreme values are flagged when they are inserted
DefaultIsValidByValue(value) == IF value \in {FLATLINE, SPIKE} THEN 0 ELSE NULL

DefaultIsValid(value) == NULL

\* INSERT INTO mq2_data (sensor_value) VALUES (?)
NewRow(value, ts) ==
    [sensor_value |-> value, is_valid |-> DefaultIsValid(value), timestamp |-> ts]

\* variant: the new row takes the first id and the others move up
InsertRowFirst(rows, value, ts) == <<NewRow(value, ts)>> \o rows

\* id INTEGER PRIMARY KEY AUTOINCREMENT: the new row's id follows the last
InsertRow(rows, value, ts) == Append(rows, NewRow(value, ts))

\* the files nobody refers to any more are gone
Sweep(fs, p, vc, qc) ==
    [f \in FileIds |-> IF f = p \/ f = vc \/ f = qc THEN fs[f] ELSE EmptyFile]

\* sqlite3.connect(DB_FILE): opens the file the name denotes, creating an
\* empty one when the name does not exist
FreshFile(fs, vc, qc) ==
    CHOOSE f \in FileIds : f # vc /\ f # qc /\ \A g \in FileIds : (g # vc /\ g # qc) => f <= g

ConnectTarget(p, fs, vc, qc) == IF p # NoFile THEN p ELSE FreshFile(fs, vc, qc)

FilesAfterConnect(p, fs, vc, qc) ==
    IF p # NoFile THEN fs
    ELSE [fs EXCEPT ![FreshFile(fs, vc, qc)] = CreatedFile]

(* ------------------------- setup_database ----------------------------- *)
RECURSIVE Repeat(_, _)
Repeat(v, n) == IF n = 0 THEN <<>> ELSE <<v>> \o Repeat(v, n - 1)

\* np.concatenate([normal_data, anomalies])
all_values == Repeat(NORMAL, NumNormal) \o Repeat(SPIKE, NumSpike) \o Repeat(FLATLINE, NumFlat)

Reverse(s) == [i \in 1..Len(s) |-> s[Len(s) + 1 - i]]

\* random.shuffle(all_values): the orders followed are the order of
\* all_values and its reverse
Shuffles == {all_values, Reverse(all_values)}

\* variant: normal_data is inserted instead of all_values
SeedRowsNormalOnly(rows, values, ts) ==
    LET normal == SelectSeq(values, LAMBDA v : v = NORMAL)
    IN  rows \o [i \in 1..Len(normal) |->
                    [sensor_value |-> normal[i], is_valid |-> NULL, timestamp |-> ts]]

\* cursor.executemany(INSERT ...), conn.commit()
SeedRows(rows, values, ts) ==
    rows \o [i \in 1..Len(values) |-> NewRow(values[i], ts)]

\* os.path.exists(DB_FILE) / os.remove(DB_FILE)
PathAfterRemove(p) == NoFile

(* --------------------------- validator_loop --------------------------- *)
\* variant: the WHERE clause is missing
SelectAllIds(rows) == 1..Len(rows)

\* variant: WHERE is_valid IS NOT 1
SelectNotValidIds(rows) == {i \in 1..Len(rows) : rows[i].is_valid # 1}

\* variant: ... WHERE is_valid IS NULL AND id <= the size of the seed
SelectUnknownSeedIds(rows) ==
    {i \in 1..Len(rows) : rows[i].is_valid = NULL /\ i <= SeedSize}

\* SELECT id, sensor_value FROM mq2_data WHERE is_valid IS NULL
SelectUnknownIds(rows) == {i \in 1..Len(rows) : rows[i].is_valid = NULL}

\* variant: the prediction is stored as it comes
MapLabelRaw(prediction) == prediction

\* np.where(predictions == 1, 1, 0)
MapLabel(prediction) == IF prediction = 1 THEN 1 ELSE 0

\* variant: the UPDATE goes through a connection opened by name at commit
CommitTargetByName(conn, p) == p

\* the connection the UPDATE goes through is the one the SELECT used
CommitTarget(conn, p) == conn

\* variant: the commit deletes the rows it flags instead of marking them
ApplyLabelsDeleteFlagged(rows, df, predict) ==
    LET labelled == [i \in 1..Len(rows) |->
                        IF i \in DOMAIN df
                        THEN [rows[i] EXCEPT !.is_valid = MapLabel(predict[df[i]])]
                        ELSE rows[i]]
    IN  SelectSeq(labelled, LAMBDA r : r.is_valid # 0)

\* variant: UPDATE ... WHERE sensor_value = ?
ApplyLabelsByValue(rows, df, predict) ==
    [i \in 1..Len(rows) |->
        IF rows[i].sensor_value \in {df[j] : j \in DOMAIN df}
        THEN [rows[i] EXCEPT !.is_valid = MapLabel(predict[rows[i].sensor_value])]
        ELSE rows[i]]

\* UPDATE mq2_data SET is_valid = ? WHERE id = ?   for every row of df
ApplyLabels(rows, df, predict) ==
    [i \in 1..Len(rows) |->
        IF i \in DOMAIN df
        THEN [rows[i] EXCEPT !.is_valid = MapLabel(predict[df[i]])]
        ELSE rows[i]]

(* --------------------------- dashboard_data --------------------------- *)
CountWhere(rows, v) == Cardinality({i \in 1..Len(rows) : rows[i].is_valid = v})

\* SUM(CASE WHEN ... THEN 1 ELSE 0 END): NULL over no rows
SqlSum(rows, v) == IF Len(rows) = 0 THEN NULL ELSE CountWhere(rows, v)

StatsRow(rows) ==
    [total |-> Len(rows),
     valid |-> SqlSum(rows, 1),
     invalid |-> SqlSum(rows, 0),
     unprocessed |-> SqlSum(rows, NULL)]

\* int(v) if pd.notna(v) and v is not None else 0
NotNa(v) == IF v = NULL THEN 0 ELSE v

NormalizeStats(s) == [k \in DOMAIN s |-> NotNa(s[k])]

ZeroStats == [total |-> 0, valid |-> 0, invalid |-> 0, unprocessed |-> 0]

Min(a, b) == IF a < b THEN a ELSE b

AnomalyIds(rows) == {i \in 1..Len(rows) : rows[i].is_valid = 0}

\* variant: ORDER BY timestamp ASC
AnomalyResultsOldestFirst(rows) ==
    LET ids == {i \in 1..Len(rows) : rows[i].is_valid = 0}
        k == IF AnomalyLimit < Cardinality(ids) THEN AnomalyLimit ELSE Cardinality(ids)
    IN  {s \in [1..k -> ids] :
            /\ \A i, j \in 1..k : i < j =>
                   s[i] # s[j] /\ rows[s[i]].timestamp <= rows[s[j]].timestamp
            /\ \A x \in ids : (\A i \in 1..k : s[i] # x) =>
                   \A i \in 1..k : rows[s[i]].timestamp <= rows[x].timestamp}

\* SELECT id, timestamp, sensor_value ... WHERE is_valid = 0
\* ORDER BY timestamp DESC LIMIT: rows of equal timestamp come in any order
AnomalyResults(rows) ==
    LET ids == AnomalyIds(rows)
        k == Min(AnomalyLimit, Cardinality(ids))
    IN  {s \in [1..k -> ids] :
            /\ \A i, j \in 1..k : i < j =>
                   s[i] # s[j] /\ rows[s[i]].timestamp >= rows[s[j]].timestamp
            /\ \A x \in ids : (\A i \in 1..k : s[i] # x) =>
                   \A i \in 1..k : rows[s[i]].timestamp >= rows[x].timestamp}

AnomalyRecords(rows, s) ==
    [i \in 1..Len(s) |->
        [id |-> s[i], timestamp |-> rows[s[i]].timestamp,
         sensor_value |-> rows[s[i]].sensor_value]]

NoResp == [status |-> 0, keys |-> {}, stats |-> ZeroStats, anomalies |-> <<>>]
\* variant: the except clause answers with empty data
SwallowedErrorResp ==
    [status |-> 200, keys |-> {"stats"}, stats |-> ZeroStats, anomalies |-> <<>>]

\* jsonify({"error": str(e)}), 500
ErrorResp == [status |-> 500, keys |-> {"error"}, stats |-> ZeroStats, anomalies |-> <<>>]
\* jsonify({"stats": stats, "anomalies": anomalies})
OkResp(stats, anomalies) ==
    [status |-> 200, keys |-> {"stats", "anomalies"}, stats |-> stats, anomalies |-> anomalies]

(* ------------------------------ state --------------------------------- *)
\* setup_database has removed the old database and not yet committed the new
InSetup == injector.pc \in {"create", "seed"}

\* history of the last failed setup_database: seconds slept since it failed,
\* number of rows the store held when the call began
NoFailure == [pending |-> FALSE, slept |-> 0, before |-> 0]

\* another connection cannot write file f: the validator's connection holds
\* an open write transaction on it
Locked(f) == validator.tx /\ validator.conn = f

TableRows(f) == IF f # NoFile /\ files[f].hasTable THEN files[f].rows ELSE <<>>

IdleDashboard ==
    [pc |-> "idle", conn |-> NoFile, stats |-> ZeroStats, resp |-> NoResp,
     fault |-> FALSE, saw |-> "none", inSetup |-> FALSE]

\* the module's own setup_database() has run and both threads have started
Init ==
    /\ path = 1
    /\ \E values \in Shuffles :
           files = [f \in FileIds |->
                       IF f = 1
                       THEN [exists |-> TRUE, hasTable |-> TRUE,
                             rows |-> SeedRows(<<>>, values, 0)]
                       ELSE EmptyFile]
    /\ elapsed = 0
    /\ injector = [pc |-> "tick"]
    /\ generation = 0
    /\ failure = NoFailure
    /\ validator = [pc |-> "connect", conn |-> NoFile, df |-> <<>>, stale |-> FALSE,
                    tx |-> FALSE]
    /\ dashboard = IdleDashboard

(* ------------------- the tables a request can find ------------------- *)
\* the rows appended to a seeded table: timestamps (CURRENT_TIMESTAMP, in
\* seconds since the seeding) never decrease with the id, and the validator
\* labels every NULL row it finds, so the labelled rows come first
AppendedRows ==
    UNION {{a \in [1..n -> [sensor_value : {FLATLINE, SPIKE, NORMAL},
                            is_valid : {NULL, 0, 1},
                            timestamp : 0..MaxTicks]] :
               \A i, j \in 1..n : i < j =>
                   /\ a[i].timestamp <= a[j].timestamp
                   /\ a[i].is_valid = NULL => a[j].is_valid = NULL}
           : n \in 0..MaxTicks}

\* the seed, not yet labelled or labelled in one batch, then appended rows
StoredTables ==
    {SeedRows(<<>>, values, 0) \o a :
        values \in Shuffles,
        a \in {b \in AppendedRows : \A i \in 1..Len(b) : b[i].is_valid = NULL}}
    \cup
    {ApplyLabels(SeedRows(<<>>, values, 0), [i \in 1..SeedSize |-> values[i]], predict) \o a :
        values \in Shuffles,
        predict \in [{FLATLINE, SPIKE, NORMAL} -> {1, 0 - 1}],
        a \in AppendedRows}

\* a request arrives while the database holds one of these tables
InitStored ==
    /\ path = 1
    /\ \E rows \in StoredTables :
           files = [f \in FileIds |->
                       IF f = 1
                       THEN [exists |-> TRUE, hasTable |-> TRUE, rows |-> rows]
                       ELSE EmptyFile]
    /\ elapsed = 0
    /\ injector = [pc |-> "tick"]
    /\ generation = 0
    /\ failure = NoFailure
    /\ validator = [pc |-> "connect", conn |-> NoFile, df |-> <<>>, stale |-> FALSE,
                    tx |-> FALSE]
    /\ dashboard = IdleDashboard

(* --------------------------- data_injector ---------------------------- *)
\* time.sleep(1) suspends the thread for at least one second: the model
\* follows a sleep of one second and a sleep of a whole reset interval
SleepSeconds == {1, RESET_INTERVAL_SECONDS}

\* variant: no except clause, the exception ends the thread
AfterUncaughtError == "dead"

\* except Exception as e: print(...); the loop goes on with time.sleep(1)
AfterInjectorError == "tick"

\* setup_database raised: except Exception in data_injector prints the error,
\* start_time keeps its value, then time.sleep(1)
SetupFailed ==
    /\ \E d \in SleepSeconds :
          failure' = [failure EXCEPT !.pending = TRUE,
                                     !.slept = Min(d, RESET_INTERVAL_SECONDS)]
    /\ injector' = [injector EXCEPT !.pc = AfterInjectorError]

\* elapsed >= RESET_INTERVAL_SECONDS: setup_database() is entered;
\* if os.path.exists(DB_FILE): os.remove(DB_FILE)
InjectorReset ==
    /\ injector.pc = "tick"
    /\ elapsed >= RESET_INTERVAL_SECONDS
    /\ generation < MaxResets
    /\ LET began == IF failure.pending THEN failure
                    ELSE [failure EXCEPT !.before = Len(TableRows(path))]
       IN \E ok \in BOOLEAN :
            IF path = NoFile
            THEN /\ ok
                 /\ injector' = [injector EXCEPT !.pc = "create"]
                 /\ failure' = began
                 /\ UNCHANGED <<path, files>>
            ELSE IF ok
            THEN /\ path' = PathAfterRemove(path)
                 /\ files' = Sweep(files, path', validator.conn, dashboard.conn)
                 /\ injector' = [injector EXCEPT !.pc = "create"]
                 /\ failure' = began
            ELSE /\ \E d \in SleepSeconds :
                       failure' = [began EXCEPT !.pending = TRUE,
                                                !.slept = Min(d, RESET_INTERVAL_SECONDS)]
                 /\ injector' = [injector EXCEPT !.pc = "tick"]
                 /\ UNCHANGED <<path, files>>
    /\ UNCHANGED <<elapsed, generation, validator, dashboard>>

\* sqlite3.connect(DB_FILE); cursor.execute(CREATE TABLE ...)
SetupCreate ==
    /\ injector.pc = "create"
    /\ LET f == ConnectTarget(path, files, validator.conn, dashboard.conn)
           opened == FilesAfterConnect(path, files, validator.conn, dashboard.conn)
       IN \E step \in {"ok", "connect_fails", "create_fails"} :
            CASE step = "connect_fails" ->
                    /\ SetupFailed
                    /\ UNCHANGED <<path, files>>
              [] step = "create_fails" \/ opened[f].hasTable ->
                    \* the file is there, the statement raised
                    /\ SetupFailed
                    /\ path' = f
                    /\ files' = opened
              [] OTHER ->
                    /\ path' = f
                    /\ files' = [opened EXCEPT ![f].hasTable = TRUE]
                    /\ injector' = [injector EXCEPT !.pc = "seed"]
                    /\ UNCHANGED failure
    /\ UNCHANGED <<elapsed, generation, validator, dashboard>>

\* executemany(INSERT ...), commit, close; back in data_injector:
\* start_time = time.time(); continue
SetupSeed ==
    /\ injector.pc = "seed"
    /\ \E ok \in BOOLEAN :
          IF ok
          THEN /\ \E values \in Shuffles :
                     files' = [files EXCEPT ![path].rows = SeedRows(@, values, 0)]
               /\ elapsed' = 0
               /\ generation' = generation + 1
               /\ injector' = [pc |-> "tick"]
               /\ failure' = NoFailure
               /\ validator' = [validator EXCEPT !.stale = (validator.pc = "fit")]
          ELSE /\ SetupFailed
               /\ UNCHANGED <<files, elapsed, generation, validator>>
    /\ UNCHANGED <<path, dashboard>>

\* the sleeps the model follows when it follows `ticks` one-second ticks of
\* one interval; past them the injector stays in time.sleep
SleepFollowed(d, ticks) ==
    \/ d = 1 /\ elapsed + 1 < ticks
    \/ d # 1 /\ generation < MaxResets

\* value = random.choice([0.0, 900.0]) or max(0.0, normal(150, 25));
\* connect, INSERT, commit, close; time.sleep(1)
InjectorAppendWithin(ticks) ==
    /\ injector.pc = "tick"
    /\ elapsed < RESET_INTERVAL_SECONDS
    /\ \E value \in {FLATLINE, SPIKE, NORMAL}, step \in {"ok", "connect_fails", "insert_fails"} :
          LET f == ConnectTarget(path, files, validator.conn, dashboard.conn)
              opened == FilesAfterConnect(path, files, validator.conn, dashboard.conn)
              raised == step # "ok" \/ ~opened[f].hasTable \/ Locked(f)
              loop == IF raised THEN AfterInjectorError ELSE "tick"
          IN /\ CASE step = "connect_fails" -> UNCHANGED <<path, files>>
                  [] step # "connect_fails" /\ raised ->
                       \* the INSERT raised: no such table, or database is locked
                       /\ path' = f
                       /\ files' = opened
                  [] OTHER ->
                       /\ path' = f
                       /\ files' = [opened EXCEPT ![f].rows = InsertRow(@, value, elapsed)]
             /\ \/ \E d \in SleepSeconds :
                      /\ SleepFollowed(d, ticks)
                      /\ elapsed' = Min(elapsed + d, RESET_INTERVAL_SECONDS)
                      /\ injector' = [injector EXCEPT !.pc = loop]
                \/ /\ \A d \in SleepSeconds : ~SleepFollowed(d, ticks)
                   /\ injector' = [injector EXCEPT !.pc = IF loop = "tick" THEN "sleep" ELSE loop]
                   /\ UNCHANGED elapsed
    /\ UNCHANGED <<generation, failure, validator, dashboard>>

InjectorAppend == InjectorAppendWithin(MaxTicks)

\* the injector followed for one tick more
InjectorAppendNextTick == InjectorAppendWithin(MaxTicks + 1)

(* --------------------------- validator_loop --------------------------- *)
\* model.fit_predict(df[['sensor_value']]): 1 (inlier) or -1 (outlier), the
\* same for equal values of one batch
Predictions(df) == [{df[i] : i \in DOMAIN df} -> {1, 0 - 1}]

\* conn = sqlite3.connect(DB_FILE); df = pd.read_sql_query(SELECT ... WHERE
\* is_valid IS NULL); if df.empty: conn.close(); time.sleep(60)
\* An exception leaves the connection open until conn is bound again.
ValidatorSelect ==
    /\ validator.pc = "connect"
    /\ \E step \in {"ok", "connect_fails", "select_fails"} :
          LET f == ConnectTarget(path, files, NoFile, dashboard.conn)
              opened == FilesAfterConnect(path, files, NoFile, dashboard.conn)
              rows == opened[f].rows
              ids == SelectUnknownIds(rows)
          IN CASE step = "connect_fails" ->
                    /\ UNCHANGED <<path, files, validator>>
               [] step = "select_fails" \/ ~opened[f].hasTable ->
                    /\ path' = f
                    /\ files' = Sweep(opened, f, f, dashboard.conn)
                    /\ validator' = [validator EXCEPT !.conn = f, !.df = <<>>, !.stale = FALSE,
                                                      !.tx = FALSE]
               [] OTHER ->
                    /\ path' = f
                    /\ IF ids = {}
                       THEN /\ files' = Sweep(opened, f, NoFile, dashboard.conn)
                            /\ validator' = [validator EXCEPT !.conn = NoFile, !.df = <<>>,
                                                              !.stale = FALSE, !.tx = FALSE]
                       ELSE /\ files' = Sweep(opened, f, f, dashboard.conn)
                            /\ validator' = [pc |-> "fit", conn |-> f,
                                             df |-> [i \in ids |-> rows[i].sensor_value],
                                             stale |-> FALSE, tx |-> FALSE]
    /\ UNCHANGED <<elapsed, injector, generation, failure, dashboard>>

\* fit_predict, np.where, executemany(UPDATE ...), conn.commit(), conn.close();
\* time.sleep(60)
ValidatorCommit ==
    /\ validator.pc = "fit"
    /\ LET target == CommitTarget(validator.conn, path)
           moved == validator.conn # path
       IN \E step \in {"ok", "fails", "dbmoved"} :
            CASE step = "fails" ->
                    \* fit_predict raised (no transaction yet), or executemany or
                    \* commit raised: the transaction executemany began stays open
                    \* on conn, which nothing closes before conn is bound again
                    /\ \E begun \in BOOLEAN :
                          validator' = [validator EXCEPT !.pc = "connect", !.df = <<>>,
                                                            !.tx = begun /\ ~moved]
                    /\ UNCHANGED files
              [] step = "dbmoved" /\ moved ->
                    \* SQLite refuses to write a database whose name is gone
                    /\ validator' = [validator EXCEPT !.pc = "connect", !.df = <<>>]
                    /\ UNCHANGED files
              [] step = "ok" /\ target # NoFile ->
                    \E predict \in Predictions(validator.df) :
                       /\ files' = Sweep([files EXCEPT ![target].rows =
                                            ApplyLabels(@, validator.df, predict)],
                                         path, NoFile, dashboard.conn)
                       /\ validator' = [validator EXCEPT !.pc = "connect", !.conn = NoFile,
                                                         !.df = <<>>]
              [] OTHER -> FALSE
    /\ UNCHANGED <<path, elapsed, injector, generation, failure, dashboard>>

(* --------------------------- dashboard_data --------------------------- *)
\* a request arrives: conn = sqlite3.connect(DB_FILE);
\* stats_df = pd.read_sql_query(stats_query, conn); the NaN-to-0 conversion;
\* except Exception as e: return jsonify({"error": str(e)}), 500
DashboardStats ==
    /\ dashboard.pc = "idle"
    /\ \E step \in {"ok", "connect_fails", "query_fails"} :
          LET f == ConnectTarget(path, files, validator.conn, NoFile)
              opened == FilesAfterConnect(path, files, validator.conn, NoFile)
          IN CASE step = "connect_fails" ->
                    /\ dashboard' = [dashboard EXCEPT !.pc = "done", !.resp = ErrorResp,
                                                      !.fault = TRUE]
                    /\ UNCHANGED <<path, files>>
               [] step = "query_fails" ->
                    /\ dashboard' = [dashboard EXCEPT !.pc = "done", !.resp = ErrorResp,
                                                      !.fault = TRUE]
                    /\ path' = f
                    /\ files' = opened
               [] step = "ok" /\ ~opened[f].hasTable ->
                    \* no such table: mq2_data
                    /\ dashboard' = [dashboard EXCEPT !.pc = "done", !.resp = ErrorResp,
                                                      !.saw = "no_table",
                                                      !.inSetup = InSetup]
                    /\ path' = f
                    /\ files' = opened
               [] OTHER ->
                    /\ dashboard' = [dashboard EXCEPT
                                        !.pc = "anomalies", !.conn = f,
                                        !.stats = NormalizeStats(StatsRow(opened[f].rows)),
                                        !.saw = IF opened[f].rows = <<>> THEN "empty"
                                                ELSE "rows",
                                        !.inSetup = InSetup]
                    /\ path' = f
                    /\ files' = opened
    /\ UNCHANGED <<elapsed, injector, generation, failure, validator>>

\* anomalies_df = pd.read_sql_query(anomalies_query, conn); conn.close();
\* return jsonify({"stats": stats, "anomalies": anomalies})
DashboardAnomalies ==
    /\ dashboard.pc = "anomalies"
    /\ \E ok \in BOOLEAN :
          IF ~ok
          THEN dashboard' = [dashboard EXCEPT !.pc = "done", !.conn = NoFile,
                                              !.resp = ErrorResp, !.fault = TRUE]
          ELSE \E s \in AnomalyResults(files[dashboard.conn].rows) :
                  dashboard' = [dashboard EXCEPT
                                   !.pc = "done", !.conn = NoFile,
                                   !.resp = OkResp(dashboard.stats,
                                                   AnomalyRecords(files[dashboard.conn].rows, s))]
    /\ files' = Sweep(files, path, validator.conn, NoFile)
    /\ UNCHANGED <<path, elapsed, injector, generation, failure, validator>>

\* the response has been sent; the handler is ready for the next request
DashboardReturn ==
    /\ dashboard.pc = "done"
    /\ dashboard' = IdleDashboard
    /\ UNCHANGED <<path, files, elapsed, injector, generation, failure, validator>>

(* --------------------------- specification ---------------------------- *)
Next ==
    \/ InjectorReset
    \/ SetupCreate
    \/ SetupSeed
    \/ InjectorAppend
    \/ ValidatorSelect
    \/ ValidatorCommit
    \/ DashboardStats
    \/ DashboardAnomalies
    \/ DashboardReturn

Spec == Init /\ [][Next]_vars

\* the two background threads alone: no request is made of the handler
NextStore ==
    \/ InjectorReset
    \/ SetupCreate
    \/ SetupSeed
    \/ InjectorAppend
    \/ ValidatorSelect
    \/ ValidatorCommit

SpecStore == Init /\ [][NextStore]_vars

\* one generation: the three threads before RESET_INTERVAL_SECONDS have passed
NextGeneration ==
    \/ InjectorAppend
    \/ ValidatorSelect
    \/ ValidatorCommit
    \/ DashboardStats
    \/ DashboardAnomalies
    \/ DashboardReturn

SpecGeneration == Init /\ [][NextGeneration]_vars

\* the handler alone, on every table of StoredTables
NextHandler ==
    \/ DashboardStats
    \/ DashboardAnomalies
    \/ DashboardReturn

SpecHandler == InitStored /\ [][NextHandler]_vars

\* the injector alone, one tick further than in Spec
NextInjector ==
    \/ InjectorReset
    \/ SetupCreate
    \/ SetupSeed
    \/ InjectorAppendNextTick

SpecInjector == Init /\ [][NextInjector]_vars

\* a cycle of the validator in which nothing raises
ValidatorSelectOk == ValidatorSelect /\ (validator'.pc = "fit" \/ validator'.conn = NoFile)

\* the commit is made, or it is refused because a reset removed the database
ValidatorCommitOk == ValidatorCommit /\ (validator'.conn = NoFile \/ validator.conn # path)

\* the two background threads, the validator never failing and always
\* coming to its next step: while True ... time.sleep(60) in a thread of its own
NextFair ==
    \/ InjectorReset
    \/ SetupCreate
    \/ SetupSeed
    \/ InjectorAppend
    \/ ValidatorSelectOk
    \/ ValidatorCommitOk

SpecFair ==
    /\ Init
    /\ [][NextFair]_vars
    /\ WF_vars(ValidatorSelectOk)
    /\ WF_vars(ValidatorCommitOk)

(* ------------------------------- claims ------------------------------- *)
Store == TableRows(path)

AllUnknown(rows) == \A i \in 1..Len(rows) : rows[i].is_valid = NULL

\* C1: a validator commit that comes after a seeding committed since its
\* snapshot changes no row of the store; when no later setup_database is
\* under way the store then holds the seeded rows and the rows appended
\* since, all with is_valid NULL.
C1_DelayedCommit == validator.pc = "fit" /\ validator.stale /\ validator'.pc = "connect"

C1_StaleLabelsDropped ==
    [][(C1_DelayedCommit /\ path # NoFile) =>
          /\ path' = path
          /\ files'[path].rows = files[path].rows
          /\ (~InSetup /\ ~failure.pending) =>
                 /\ Len(files'[path].rows) >= SeedSize
                 /\ Len(files'[path].rows) <= SeedSize + MaxTicks
                 /\ AllUnknown(files'[path].rows)]_vars

\* the delayed commit has been made and a reading was appended in between
C1_Witness ==
    /\ validator.pc = "connect"
    /\ validator.stale
    /\ ~InSetup
    /\ Len(Store) > SeedSize
    /\ AllUnknown(Store)

\* C2 (as claimed): a stats query that runs while setup_database is between
\* the removal of the old database and the commit of the seed finds a whole
\* generation: a table of at least the seeded rows.
C2_ResetAtomic ==
    dashboard.inSetup => (dashboard.saw = "rows" /\ dashboard.stats.total >= SeedSize)

\* C3: the counts of every successful response, and the counts of every
\* table at every moment (so after every validator commit), add up:
\* valid + invalid + unprocessed = total.
C3_Sums(st) == st.valid + st.invalid + st.unprocessed = st.total

C3_CountsSumToTotal ==
    /\ dashboard.saw \in {"empty", "rows"} => C3_Sums(dashboard.stats)
    /\ dashboard.resp.status = 200 => C3_Sums(dashboard.resp.stats)
    /\ \A f \in FileIds :
          files[f].hasTable => C3_Sums(NormalizeStats(StatsRow(files[f].rows)))

\* a successful response that counts valid, invalid and unprocessed rows
C3_Witness ==
    /\ dashboard.pc = "done"
    /\ dashboard.resp.status = 200
    /\ dashboard.resp.stats.valid > 0
    /\ dashboard.resp.stats.invalid > 0
    /\ dashboard.resp.stats.unprocessed > 0

\* C4: no step changes the is_valid of a row that is 0 or 1, and a row that
\* is NULL becomes 0 or 1 or stays NULL.
C4_LabelledOnce ==
    [][\A f \in FileIds : \A i \in 1..Len(files[f].rows) :
          i <= Len(files'[f].rows) =>
             IF files[f].rows[i].is_valid = NULL
             THEN files'[f].rows[i].is_valid \in {NULL, 0, 1}
             ELSE files'[f].rows[i].is_valid = files[f].rows[i].is_valid]_vars

\* two commits were made on one database: the appended row and a seeded row
\* of the same value carry different labels
C4_Witness ==
    /\ Len(Store) = SeedSize + 1
    /\ \A i \in 1..Len(Store) : Store[i].is_valid \in {0, 1}
    /\ \E i \in 1..SeedSize :
          /\ Store[i].sensor_value = Store[SeedSize + 1].sensor_value
          /\ Store[i].is_valid # Store[SeedSize + 1].is_valid

\* C5 (as claimed): after a failed setup_database and until one succeeds,
\* (1) the store still holds the rows it held when the failed call began,
\* (2) setup_database is entered again only after a further full interval.
C5_FailedResetKeepsDataAndTimer ==
    failure.pending =>
       /\ path # NoFile /\ files[path].hasTable /\ Len(Store) >= failure.before
       /\ InSetup => failure.slept >= RESET_INTERVAL_SECONDS

\* C6: at startup and right after every committed seeding the store holds
\* exactly the seeded values, all with is_valid NULL:
\* total = unprocessed = SeedSize, valid = invalid = 0.
C6_Fresh(rows) ==
    /\ [i \in 1..Len(rows) |-> rows[i].sensor_value] \in Shuffles
    /\ AllUnknown(rows)
    /\ NormalizeStats(StatsRow(rows)) =
          [total |-> SeedSize, valid |-> 0, invalid |-> 0, unprocessed |-> SeedSize]

C6_FreshAfterSeed ==
    /\ C6_Fresh(Store)
    /\ [][generation' # generation => (path' # NoFile /\ C6_Fresh(files'[path'].rows))]_vars

\* a re-seeding has been committed while the validator still holds the
\* database of the generation before
C6_Witness ==
    /\ generation > 0
    /\ C6_Fresh(Store)
    /\ validator.conn # NoFile
    /\ validator.conn # path
    /\ files[validator.conn].rows # <<>>

\* C7: while no row of the store is NULL a validator cycle selects nothing:
\* the validator never gets to fit and commit, and its step changes no row.
C7_FullyLabelled == Store # <<>> /\ \A i \in 1..Len(Store) : Store[i].is_valid \in {0, 1}

C7_Idempotent ==
    [][(C7_FullyLabelled /\ validator.pc = "connect") =>
          /\ validator'.pc = "connect"
          /\ validator' # validator => (path' = path /\ files'[path] = files[path])]_vars

\* a fully labelled store with both labels, the validator between two cycles
C7_Witness ==
    /\ C7_FullyLabelled
    /\ validator.pc = "connect"
    /\ validator.conn = NoFile
    /\ \E i, j \in 1..Len(Store) : Store[i].is_valid = 0 /\ Store[j].is_valid = 1

\* C8: a row is inserted with is_valid NULL whatever its value; it leaves
\* NULL only in a commit of the validator whose batch holds it; the stats
\* query counts the NULL rows as unprocessed and the anomalies query lists
\* only rows whose is_valid is 0.
C8_UnknownUntilClassified ==
    [][/\ \A f \in FileIds : \A i \in 1..Len(files'[f].rows) :
             IF i > Len(files[f].rows)
             THEN files'[f].rows[i].is_valid = NULL
             ELSE (files[f].rows[i].is_valid = NULL /\ files'[f].rows[i].is_valid # NULL)
                     => (validator.pc = "fit" /\ validator'.pc = "connect"
                         /\ validator.conn = f /\ i \in DOMAIN validator.df)
       /\ (dashboard.pc = "idle" /\ dashboard'.pc = "anomalies") =>
             dashboard'.stats.unprocessed =
                Cardinality({i \in 1..Len(files'[dashboard'.conn].rows) :
                                files'[dashboard'.conn].rows[i].is_valid = NULL})
       /\ (dashboard.pc = "anomalies" /\ dashboard'.resp.status = 200) =>
             \A k \in 1..Len(dashboard'.resp.anomalies) :
                files[dashboard.conn].rows[dashboard'.resp.anomalies[k].id].is_valid = 0]_vars

\* a flatline was appended and is still NULL; the response made since counts
\* it as unprocessed and lists other rows as anomalies, not this one
C8_Witness ==
    /\ dashboard.pc = "done"
    /\ dashboard.resp.status = 200
    /\ Len(Store) = SeedSize + 1
    /\ Store[SeedSize + 1].sensor_value = FLATLINE
    /\ Store[SeedSize + 1].is_valid = NULL
    /\ dashboard.resp.stats.total = SeedSize + 1
    /\ dashboard.resp.stats.unprocessed = 1
    /\ dashboard.resp.anomalies # <<>>
    /\ \A k \in 1..Len(dashboard.resp.anomalies) :
          dashboard.resp.anomalies[k].id # SeedSize + 1

\* C9 (as claimed): a request whose stats query finds no table or an empty
\* table, and whose store accesses do not fail, is answered 200 with all
\* counts 0 and no anomalies.
C9_EmptyStoreAnswer ==
    (dashboard.pc = "done" /\ ~dashboard.fault /\ dashboard.saw \in {"no_table", "empty"})
       => dashboard.resp = OkResp(ZeroStats, <<>>)

\* C10: a request in which a store access failed is answered 500 with the
\* error alone; every response is either that or 200 with stats and anomalies.
C10_ErrorOrWhole ==
    dashboard.pc = "done" =>
       /\ dashboard.fault =>
             (dashboard.resp.status = 500 /\ dashboard.resp.keys = {"error"})
       /\ \/ dashboard.resp.status = 500 /\ dashboard.resp.keys = {"error"}
          \/ dashboard.resp.status = 200 /\ dashboard.resp.keys = {"stats", "anomalies"}

\* the anomalies query failed after the stats query had counted rows
C10_Witness ==
    /\ dashboard.pc = "done"
    /\ dashboard.fault
    /\ dashboard.saw = "rows"
    /\ dashboard.stats.total > 0
    /\ dashboard.resp.status = 500

\* C11: while DB_FILE names the same database (one generation) every reading
\* keeps its id, and a step that adds a reading gives it the id after the
\* last; the number of readings of the store goes down only when
\* setup_database removes the database.
C11_SameReading(r, s) == r.sensor_value = s.sensor_value /\ r.timestamp = s.timestamp

C11_IdsIncrease ==
    [][/\ (path # NoFile /\ path' = path) =>
             /\ Len(files'[path].rows) >= Len(files[path].rows)
             /\ \A i \in 1..Len(files[path].rows) :
                   C11_SameReading(files[path].rows[i], files'[path].rows[i])
       /\ Len(TableRows(path)') < Len(TableRows(path)) =>
             (injector.pc = "tick" /\ injector'.pc = "create" /\ path' = NoFile)]_vars

\* in the generation of a re-seeding, a reading appended after the validator
\* labelled the seed: it has the last id and is the only one still NULL
C11_Witness ==
    /\ generation > 0
    /\ Len(Store) = SeedSize + 1
    /\ Store[SeedSize + 1].is_valid = NULL
    /\ \A i \in 1..SeedSize : Store[i].is_valid # NULL

\* C12: while DB_FILE names the same database and no seeding is under way, a
\* step leaves the readings of the store as they are or adds one reading at
\* the end; the step that adds one is a step of the injector and changes no
\* row that was there; a step of the handler changes nothing of the store.
C12_Readings(rows) == [i \in 1..Len(rows) |-> <<rows[i].sensor_value, rows[i].timestamp>>]

C12_OnlyGrows ==
    [][/\ (path # NoFile /\ path' = path /\ injector.pc # "seed") =>
             \/ C12_Readings(files'[path].rows) = C12_Readings(files[path].rows)
             \/ /\ Len(files'[path].rows) = Len(files[path].rows) + 1
                /\ SubSeq(files'[path].rows, 1, Len(files[path].rows)) = files[path].rows
                /\ validator' = validator
                /\ dashboard' = dashboard
                /\ injector.pc = "tick"
       /\ (dashboard' # dashboard /\ path # NoFile) =>
             (path' = path /\ files'[path] = files[path])]_vars

\* after a re-seeding: a reading was appended, the validator labelled the
\* whole store and a request counted all of it
C12_Witness ==
    /\ generation > 0
    /\ Len(Store) = SeedSize + 1
    /\ \A i \in 1..Len(Store) : Store[i].is_valid \in {0, 1}
    /\ dashboard.pc = "done"
    /\ dashboard.resp.status = 200
    /\ dashboard.resp.stats.total = SeedSize + 1
    /\ dashboard.resp.stats.unprocessed = 0

\* C13: the anomalies of a successful response are at most AnomalyLimit
\* rows, all of them different rows with is_valid 0, in order of timestamp
\* from the latest on; when more rows than AnomalyLimit have is_valid 0 the
\* list is full and no row left out is later than a row listed.
C13_Invalid == {i \in 1..Len(Store) : Store[i].is_valid = 0}

C13_LatestFirst ==
    (dashboard.pc = "done" /\ dashboard.resp.status = 200) =>
       LET an == dashboard.resp.anomalies
       IN  /\ Len(an) <= AnomalyLimit
           /\ \A k \in 1..Len(an) :
                 /\ an[k].id \in C13_Invalid
                 /\ an[k].timestamp = Store[an[k].id].timestamp
           /\ \A i, j \in 1..Len(an) : i < j =>
                 (an[i].id # an[j].id /\ an[i].timestamp >= an[j].timestamp)
           /\ Cardinality(C13_Invalid) > AnomalyLimit =>
                 /\ Len(an) = AnomalyLimit
                 /\ \A x \in C13_Invalid :
                       (\A k \in 1..Len(an) : an[k].id # x) =>
                          \A k \in 1..Len(an) : an[k].timestamp >= Store[x].timestamp

\* more invalid rows than the limit: the response lists the later appended
\* row first and leaves out a seeded row
C13_Witness ==
    /\ dashboard.pc = "done"
    /\ dashboard.resp.status = 200
    /\ Cardinality(C13_Invalid) > AnomalyLimit
    /\ Len(dashboard.resp.anomalies) = AnomalyLimit
    /\ dashboard.resp.anomalies[1].id > SeedSize
    /\ dashboard.resp.anomalies[1].timestamp > dashboard.resp.anomalies[AnomalyLimit].timestamp
    /\ \E x \in C13_Invalid : \A k \in 1..AnomalyLimit : dashboard.resp.anomalies[k].id # x

\* C14 (as claimed): a cycle of the validator that ends in an exception
\* changes no row of the store, and leaves no write lock on the store for
\* the time until its next cycle.
C14_FailedCycle ==
    validator' # validator /\ validator'.pc = "connect" /\ validator'.conn # NoFile

C14_FailedCycleAllOrNothingUnlocked ==
    [][(C14_FailedCycle /\ path # NoFile) =>
          /\ path' = path
          /\ files'[path].rows = files[path].rows
          /\ ~(validator'.tx /\ validator'.conn = path')]_vars

\* C15: a tick of the injector adds one reading to the store or, when its
\* append raised, none, and changes no row that was there; in both cases the
\* thread goes on to time.sleep(1) and to its next tick: it does not end,
\* and it makes no second attempt before the second has passed.
C15_Tick ==
    /\ injector.pc = "tick"
    /\ elapsed < RESET_INTERVAL_SECONDS
    /\ (elapsed' # elapsed \/ injector' # injector)

C15_FailedAppendIsLocal ==
    [][C15_Tick =>
          /\ injector'.pc \in {"tick", "sleep"}
          /\ injector'.pc = "tick" => elapsed' > elapsed
          /\ \/ TableRows(path)' = TableRows(path)
             \/ /\ Len(TableRows(path)') = Len(TableRows(path)) + 1
                /\ SubSeq(TableRows(path)', 1, Len(TableRows(path))) = TableRows(path)
          /\ UNCHANGED <<generation, failure>>]_vars

\* the append of the first tick raised, the append of the next tick was made
C15_Witness ==
    /\ generation = 0
    /\ Len(Store) = SeedSize + 1
    /\ Store[SeedSize + 1].timestamp = 1
    /\ injector.pc \in {"tick", "sleep"}

\* C16 (as claimed): a failed setup_database does not stop the appends of the
\* following ticks: when the injector comes to its next tick after the
\* failure, that tick takes the append branch.
C16_AppendsAfterFailedReset ==
    (failure.pending /\ injector.pc = "tick") => elapsed < RESET_INTERVAL_SECONDS

\* C17: the batch of a cycle is the set of rows that are NULL at its SELECT;
\* a cycle that commits gives every row of its batch the label of its
\* prediction, 1 for inlier (1) and 0 for outlier (-1), and leaves every
\* other row, one appended since the SELECT included, as it was.
C17_Snapshot == validator.pc = "connect" /\ validator'.pc = "fit"

C17_Committed ==
    validator.pc = "fit" /\ validator'.pc = "connect" /\ validator'.conn = NoFile

C17_LabelsExactlyBatch ==
    /\ MapLabel(1) = 1
    /\ MapLabel(0 - 1) = 0
    /\ [][/\ C17_Snapshot =>
                /\ DOMAIN validator'.df = SelectUnknownIds(files'[validator'.conn].rows)
                /\ \A i \in DOMAIN validator'.df :
                      validator'.df[i] = files'[validator'.conn].rows[i].sensor_value
          /\ C17_Committed =>
                LET old == files[validator.conn].rows
                    new == files'[validator.conn].rows
                IN  /\ Len(new) = Len(old)
                    /\ \E predict \in Predictions(validator.df) :
                          \A i \in 1..Len(old) :
                             IF i \in DOMAIN validator.df
                             THEN new[i] = [old[i] EXCEPT !.is_valid =
                                               IF predict[validator.df[i]] = 1 THEN 1 ELSE 0]
                             ELSE new[i] = old[i]]_vars

\* a reading was appended between the SELECT and the commit: the seed carries
\* both labels, the appended reading is still NULL
C17_Witness ==
    /\ generation = 0
    /\ validator.pc = "connect"
    /\ validator.conn = NoFile
    /\ Len(Store) = SeedSize + 1
    /\ Store[SeedSize + 1].is_valid = NULL
    /\ \E i, j \in 1..SeedSize : Store[i].is_valid = 0 /\ Store[j].is_valid = 1
    /\ \E i \in 1..SeedSize : Store[i].sensor_value = Store[SeedSize + 1].sensor_value

\* C18: when the validator never fails and keeps running, every row of the
\* store that is NULL is labelled in the end, unless a reset removes the
\* database it is in before that: no row of the store stays NULL for ever.
C18_Unknown(i) ==
    /\ path # NoFile
    /\ i <= Len(files[path].rows)
    /\ files[path].rows[i].is_valid = NULL

C18_EventuallyLabelled ==
    \A i \in 1..(SeedSize + MaxTicks) : []<>~C18_Unknown(i)

\* a reading appended during one pass (it is not of that pass's batch) has
\* been labelled by a later pass, differently from the seeded row of its value
C18_Witness ==
    /\ generation = 0
    /\ validator.pc = "connect"
    /\ validator.conn = NoFile
    /\ Len(Store) = SeedSize + 1
    /\ Store[SeedSize + 1].sensor_value = NORMAL
    /\ Store[SeedSize + 1].is_valid = 0
    /\ \A i \in 1..SeedSize : Store[i].is_valid = 1

\* C19 (as claimed): the anomalies of a successful response are as many as
\* the invalid rows its stats count, up to the limit of the list.
C19_StatsMatchAnomalies ==
    (dashboard.pc = "done" /\ dashboard.resp.status = 200) =>
       Len(dashboard.resp.anomalies) = Min(AnomalyLimit, dashboard.resp.stats.invalid)

====
